---- MODULE Spec2Model ----
(***************************************************************************)
(* Wollama: an Ollama-compatible HTTP facade whose exchanges are carried   *)
(* out by driving a browser tab (Gemini or ChatGPT web application).       *)
(*                                                                         *)
(* The model follows the adapter classes statement by statement.  The      *)
(* JavaScript runtime is single threaded: the code between two `await`s    *)
(* runs atomically, so every action below is one such segment of one       *)
(* asynchronous call, and calls interleave only at their awaits.  A fixed  *)
(* pause (waitForTimeout) that is directly followed by the next awaited    *)
(* page operation is folded into the segment that issues that operation,   *)
(* since the pause itself reads and writes no state.                       *)
(***************************************************************************)
EXTENDS Naturals, Integers, Sequences, FiniteSets, TLC

\* ------------------------------------------------------------------ bounds
MaxCalls == 2      \* calls (facade requests, direct adapter calls) issued in a run
MaxLen == 2        \* characters of a text of the normalizer's input
MaxMsgs == 3       \* messages of a chat request body
MaxArgs == 3       \* items of a command line

\* The callers of the one adapter: caller 1, and caller 2 whose calls may
\* overlap those of caller 1.
Procs == {1, 2}

\* ------------------------------------------------------------------ state
VARIABLES
  kind,          \* adapter variant: "gemini" or "chatgpt"
  browser,       \* this.browser : 0 = null, else a connection id
  context,       \* this.context : 0 = null, else the context of a connection
  page,          \* this.page    : NoPage = null, else a page handle
  isReady,       \* this.isReady
  nConn,         \* number of CDP connections opened so far
  open,          \* ids of the connections that are still connected
  tabs,          \* the browser's tabs, in enumeration order
  inputVisible,  \* the application's prompt input is attached and visible
  sendVisible,   \* the application's send button is visible
  stopVisible,   \* the application's stop button is visible (generating)
  inputText,     \* content of the input control (0 = empty, else a prompt)
  pendingQ,      \* prompts submitted to the application and not yet answered
  containers,    \* answer containers of the conversation, oldest first
  bannered,      \* prompts the application answered with an error banner
  op,            \* per caller: the running call
  pc,            \* per caller: the await the call is suspended at
  prm,           \* per caller: the prompt of the call
  files,         \* per caller: the attachment list of the call
  newTab,        \* per caller: options.newTab of the call
  hnd,           \* per caller: page object of the pending page operation
  res,           \* per caller: outcome of the caller's last finished call
  g,             \* per caller: what the call observed and supplied so far
  nCalls,        \* calls issued so far
  lastSel,       \* container returned by the latest exchange that returned text
  portOpen,      \* browser.ts: a Chrome answers on the debugging port
  launchedByUs,  \* browser.ts: launchedByUs (chromeProcess is then not null)
  tempDir,       \* browser.ts: the temporary profile directory exists
  peer,          \* this.browser of a second adapter instance of the process
  req,           \* per caller: path and model name of the HTTP request served
  variant,       \* normalizer: the extraction code that is applied
  tree,          \* normalizer: the answer container handed to the extraction
  out,           \* normalizer: the text the extraction returned
  chrome,        \* browser.ts: chromeProcess, the spawned processes, the port
  messages,      \* main.ts: body.messages of a request to /api/chat
  fullPrompt,    \* main.ts: the prompt built from body.messages
  argv,          \* gemini-chat: the command line arguments
  cli            \* gemini-chat: the parsed arguments and the position of main

session == <<browser, context, page, isReady>>
shared  == <<portOpen, launchedByUs, tempDir, chrome, peer>>
norm    == <<variant, tree, out>>
chat    == <<messages, fullPrompt>>
tool    == <<argv, cli>>
conns   == <<nConn, open>>
dom     == <<inputVisible, sendVisible, stopVisible, inputText, pendingQ,
             containers, bannered>>
callers == <<op, pc, prm, files, newTab, hnd, res, g>>
vars    == <<kind, norm, chat, tool, req, shared, session, conns, tabs, dom, callers, nCalls,
             lastSel>>

\* ---------------------------------------------------------------- helpers
NoPage == [tab |-> 0, conn |-> 0]

Tab(u) == [url |-> u, closed |-> FALSE]

\* Tab sets the browser may hold when the adapter is constructed.
InitTabs == { <<>>, <<Tab("other"), Tab("site")>>, <<Tab("other"), Tab("app")>> }

\* Attachment lists a caller may pass.
FileLists == { <<>>, <<"b.png", "a.pdf">> }

NoRes == [out |-> "none", err |-> "", sel |-> 0]
NoReq == [path |-> "", model |-> "", method |-> ""]

\* The two POST routes of the facade that drive the browser, and the model
\* names a client may put into the request body (README, usage examples).
Paths == {"/api/generate", "/api/chat"}
Models == {"gemini-browser", "chatgpt-browser"}
NoObs == [prevSel |-> 0, ready0 |-> FALSE, send0 |-> TRUE, sawStop |-> FALSE,
          supplied |-> <<>>, filled |-> FALSE, sent |-> FALSE]

\* p.url().includes("gemini.google.com") / includes("chatgpt.com"):
\* "app" is the URL of the adapter's application, "site" is a URL that
\* contains "gemini.google.com" but not "gemini.google.com/app" (for the
\* ChatGPT adapter just another foreign URL), "other" is any other URL.
UrlMatches(k, u) == IF k = "gemini" THEN u \in {"app", "site"} ELSE u = "app"

\* !this.page.url().includes("gemini.google.com/app") / includes("chatgpt.com")
NeedsGoto(k, u) == u # "app"

\* A page object answers only while its connection is up and its tab exists.
Usable(h) == h.tab # 0 /\ h.conn \in open /\ ~tabs[h.tab].closed

\* The application is displayed in the tab of page object h.
ShowsApp(h) == Usable(h) /\ tabs[h.tab].url = "app"

InputVisibleOn(h) == ShowsApp(h) /\ inputVisible
SendVisibleOn(h)  == ShowsApp(h) /\ sendVisible
StopVisibleOn(h)  == ShowsApp(h) /\ stopVisible

\* The holder of the debugging port when it is not a process spawned by
\* this program: a Chrome started by the operator (or by another program).
Operator == -1

\* browser.ts and the Chrome processes: `process` is chromeProcess (0 =
\* null, else the position of the process in procs), `owner` is the process
\* that listens on the debugging port (0 = none), `procs` are the processes
\* spawned by launchChrome with the number of kill() calls they received.
NoChrome(po) == [process |-> 0, owner |-> IF po THEN Operator ELSE 0,
                 procs |-> <<>>]

\* spawn(chromePath, args): a new child process, held in chromeProcess.
Spawned(c, up) ==
  [c EXCEPT !.process = Len(c.procs) + 1,
            !.owner = IF up THEN Len(c.procs) + 1 ELSE c.owner,
            !.procs = Append(c.procs, [alive |-> TRUE, kills |-> 0,
                                       opened |-> up])]

\* chromeProcess.kill(): the process ends and frees the port if it holds it.
Killed(c) ==
  [c EXCEPT !.procs[c.process].kills = @ + 1,
            !.procs[c.process].alive = FALSE,
            !.owner = IF c.owner = c.process THEN 0 ELSE c.owner]

\* ------------------------------------------------------------------- Init
\* The adapter and the module state of browser.ts after construction; the
\* application has not been driven yet.
Constructed ==
  /\ kind \in {"gemini", "chatgpt"}
  /\ browser = 0 /\ context = 0 /\ page = NoPage /\ isReady = FALSE
  /\ launchedByUs = FALSE /\ tempDir = TRUE /\ peer = 0
  /\ nConn = 0 /\ open = {}
  /\ inputVisible \in BOOLEAN
  /\ sendVisible = TRUE
  /\ stopVisible = FALSE
  /\ inputText = 0
  /\ pendingQ = <<>>
  /\ containers = <<>>
  /\ bannered = {}
  /\ op = [p \in Procs |-> "none"]
  /\ pc = [p \in Procs |-> "idle"]
  /\ prm = [p \in Procs |-> 0]
  /\ files = [p \in Procs |-> <<>>]
  /\ newTab = [p \in Procs |-> FALSE]
  /\ hnd = [p \in Procs |-> NoPage]
  /\ res = [p \in Procs |-> NoRes]
  /\ g = [p \in Procs |-> NoObs]
  /\ nCalls = 0
  /\ lastSel = 0
  /\ req = [p \in Procs |-> NoReq]

\* No answer container has been handed to an extraction.
NoExtraction == variant = "none" /\ tree = <<>> /\ out = <<>>

\* No chat request body is being converted, no command line is being run.
NoChat == messages = <<>> /\ fullPrompt = <<>>
NoCli == [at |-> "none", prompt |-> "", files |-> <<>>, keepAlive |-> FALSE,
          code |-> -1]
NoTool == argv = <<>> /\ cli = NoCli

\* The operator has started Chrome with the debugging port (README, manual
\* start); it holds some tabs.
Init ==
  /\ Constructed
  /\ NoExtraction /\ NoChat /\ NoTool
  /\ portOpen = TRUE
  /\ chrome = NoChrome(portOpen)
  /\ tabs \in InitTabs

\* ------------------------------------------------------- call and return
\* Suspend caller p at await `at`, the awaited operation running on page h.
Await(p, at, h) ==
  /\ pc' = [pc EXCEPT ![p] = at]
  /\ hnd' = [hnd EXCEPT ![p] = h]

\* The call of p ends with outcome r.
Finish(p, r) ==
  /\ pc' = [pc EXCEPT ![p] = "idle"]
  /\ hnd' = [hnd EXCEPT ![p] = NoPage]
  /\ res' = [res EXCEPT ![p] = r]

\* An exception leaves the call; the facade's handler catches it and answers
\* 500, a direct caller sees the rejection.
Throw(p, e) == Finish(p, [out |-> "fail", err |-> e, sel |-> 0])

\* Suspend / end a call without touching the other per-caller variables.
Suspend(p, at, h) == Await(p, at, h) /\ UNCHANGED <<op, prm, files, newTab, res, g>>
End(p, r) == Finish(p, r) /\ UNCHANGED <<op, prm, files, newTab, g>>
Raise(p, e) == Throw(p, e) /\ UNCHANGED <<op, prm, files, newTab, g>>

\* The number of calls a run may have issued before a call of operation c:
\* MaxCalls calls, and one more ensureReady or close after them (the
\* shutdown path of the tools and of the server).
Limit(c) == IF c \in {"prepare", "release"} THEN MaxCalls + 1 ELSE MaxCalls

\* A caller issues its next call.  c is the operation, nt the newTab option
\* and fl the attachment list (only the Gemini adapter takes them).
Call(p, c, nt, fl, rq) ==
  /\ pc[p] = "idle"
  /\ nCalls < Limit(c)
  /\ nCalls' = nCalls + 1
  /\ op' = [op EXCEPT ![p] = c]
  /\ pc' = [pc EXCEPT ![p] = CASE c \in {"handler", "prepare"} -> "er_start"
                                  [] c = "exchange" -> "sm_start"
                                  [] OTHER -> "cl_start"]
  /\ prm' = [prm EXCEPT ![p] = nCalls + 1]
  /\ files' = [files EXCEPT ![p] = fl]
  /\ newTab' = [newTab EXCEPT ![p] = nt]
  /\ res' = [res EXCEPT ![p] = NoRes]
  /\ g' = [g EXCEPT ![p] = NoObs]
  /\ req' = [req EXCEPT ![p] = rq]
  /\ UNCHANGED <<kind, norm, chat, tool, shared, session, conns, tabs, dom, hnd, lastSel>>

\* POST path arrives with body.model = model: the facade's handler runs
\* `await gemini.ensureReady(); ... await gemini.sendMessage(fullPrompt)`.
Post(p, path, model) ==
  Call(p, "handler", FALSE, <<>>,
       [path |-> path, model |-> model, method |-> "POST"])

\* A request for the model of the catalog on /api/generate.
handler(p) == Post(p, "/api/generate", "gemini-browser")

\* Any request on the two routes.
post(p) == \E path \in Paths, model \in Models : Post(p, path, model)

\* A direct caller (the command line tools) calls adapter.ensureReady(options).
CallEnsureReady(p) ==
  \E nt \in BOOLEAN :
    /\ (kind = "chatgpt" => ~nt)
    /\ Call(p, "prepare", nt, <<>>, NoReq)

\* A direct caller calls adapter.sendMessage(prompt, files).
CallSendMessage(p) ==
  \E fl \in FileLists :
    /\ (kind = "chatgpt" => fl = <<>>)
    /\ Call(p, "exchange", FALSE, fl, NoReq)

\* A direct caller (or the shutdown signal handler) calls adapter.close().
CallClose(p) == Call(p, "release", FALSE, <<>>, NoReq)

\* --------------------------------------------------- sendMessage: entry
\* sendMessage entry with the test on the attachment list reversed.
SendMessageEntry_UploadEmpty(p, pg, rdy) ==
  /\ g' = [g EXCEPT ![p] = [NoObs EXCEPT !.prevSel = lastSel, !.ready0 = rdy]]
  /\ IF pg = NoPage
     THEN Throw(p, "NotReady")
     ELSE /\ res' = res
          /\ IF files[p] = <<>>
             THEN Await(p, "up_plus", pg)
             ELSE Await(p, "fill_wait", pg)

\* `if (!this.page) throw ...` and the code up to the first await, run with
\* this.page = pg and this.isReady = rdy.
SendMessageEntry(p, pg, rdy) ==
  /\ g' = [g EXCEPT ![p] = [NoObs EXCEPT !.prevSel = lastSel, !.ready0 = rdy]]
  /\ IF pg = NoPage
     THEN Throw(p, "NotReady")
     ELSE /\ res' = res
          /\ IF files[p] # <<>>
             THEN Await(p, "up_plus", pg)
             ELSE Await(p, "fill_wait", pg)

\* sendMessage entered without the test `if (!this.page)`.
sendMessage_enter_NoGuard(p) ==
  /\ pc[p] = "sm_start"
  /\ g' = [g EXCEPT ![p] = [NoObs EXCEPT !.prevSel = lastSel, !.ready0 = isReady]]
  /\ res' = res
  /\ Await(p, "fill_wait", page)
  /\ UNCHANGED <<kind, norm, chat, tool, req, shared, session, conns, tabs, dom, op, prm, files,
                 newTab, nCalls, lastSel>>

\* sendMessage is called by a direct caller.
sendMessage_enter(p) ==
  /\ pc[p] = "sm_start"
  /\ SendMessageEntry(p, page, isReady)
  /\ UNCHANGED <<kind, norm, chat, tool, req, shared, session, conns, tabs, dom, op, prm, files,
                 newTab, nCalls, lastSel>>

\* ensureReady returns: a direct caller gets its result; the facade's
\* handler goes on, in the same turn, into sendMessage.
ErReturn(p, how, pg) ==
  IF op[p] = "handler"
  THEN SendMessageEntry(p, pg, TRUE)
  ELSE Finish(p, [out |-> how, err |-> "", sel |-> 0]) /\ g' = g

\* ------------------------------------------------------------ ensureReady
\* The early-return test with the null test on the page reversed.
AlreadyReady_WrongNull == isReady /\ page = NoPage

\* `if (this.isReady && this.page) return;`
AlreadyReady == isReady /\ page # NoPage

ensureReady_enter(p) ==
  /\ pc[p] = "er_start"
  /\ IF AlreadyReady
     THEN ErReturn(p, "early", page)
     ELSE Await(p, "er_connect", NoPage) /\ UNCHANGED <<res, g>>
  /\ UNCHANGED <<kind, norm, chat, tool, req, shared, session, conns, tabs, dom, op, prm, files,
                 newTab, nCalls, lastSel>>

\* The tabs context.pages() lists: the open ones, by index.
Pages == { i \in 1..Len(tabs) : ~tabs[i].closed }

\* First listed tab with a matching URL (0 if none), pages.find(...).
MatchingPage ==
  IF \E i \in Pages : UrlMatches(kind, tabs[i].url)
  THEN CHOOSE i \in Pages : /\ UrlMatches(kind, tabs[i].url)
                            /\ \A j \in Pages : UrlMatches(kind, tabs[j].url) => i <= j
  ELSE 0

\* pages[0], 0 if there is no tab.
FirstPage == IF Pages = {} THEN 0 ELSE CHOOSE i \in Pages : \A j \in Pages : i <= j

\* The tab ensureReady binds without creating one (0: a new tab is needed).
\* Gemini: `options.newTab ? null : pages.find(...)`.
\* ChatGPT: `pages.find(...)`, else `pages[0]`.
LocateTab(nt) ==
  IF kind = "gemini"
  THEN (IF nt THEN 0 ELSE MatchingPage)
  ELSE (IF MatchingPage # 0 THEN MatchingPage ELSE FirstPage)

\* After this.page is set: setDefaultTimeout(0), then goto if the URL is not
\* the application's, then waitForSelector(input, visible, timeout 0).
AfterPage(p, pg, ts) ==
  IF NeedsGoto(kind, ts[pg.tab].url)
  THEN Await(p, "er_goto", pg)
  ELSE Await(p, "er_wait", pg)

\* launchChrome(): Chrome is spawned on the temporary profile and answers
\* on the port, showing its start tab.
LaunchChrome ==
  /\ chrome' = Spawned(chrome, TRUE)
  /\ portOpen' = TRUE
  /\ launchedByUs' = TRUE
  /\ tempDir' = TRUE
  /\ tabs' = Append(tabs, Tab("other"))

\* ensureBrowser(): `if (!(await isPortOpen())) await launchChrome()`
\* resolved; connectOverCDP is issued.
ensureReady_launch(p) ==
  /\ pc[p] = "er_connect"
  /\ ~portOpen
  /\ LaunchChrome
  /\ UNCHANGED <<kind, norm, chat, tool, req, peer, session, conns, dom, callers, nCalls, lastSel>>

\* ensureBrowser() resolved with a connection that exposes a context:
\* `this.browser = ...; this.context = contexts[0]`, then the tab is located.
ensureReady_connected(p) ==
  /\ pc[p] = "er_connect"
  /\ portOpen
  /\ LET c == nConn + 1 IN
     /\ nConn' = c
     /\ open' = open \cup {c}
     /\ browser' = c
     /\ context' = c
     /\ IF LocateTab(newTab[p]) # 0
        THEN /\ page' = [tab |-> LocateTab(newTab[p]), conn |-> c]
             /\ AfterPage(p, page', tabs)
        ELSE /\ page' = page
             /\ Await(p, "er_newpage", [tab |-> 0, conn |-> c])
  /\ UNCHANGED <<kind, norm, chat, tool, req, shared, isReady, tabs, dom, op, prm, files, newTab, res, g,
                 nCalls, lastSel>>

\* The missing context noticed only after a tab has been bound.
ensureReady_noContext_Binds(p) ==
  /\ pc[p] = "er_connect"
  /\ portOpen
  /\ nConn' = nConn + 1
  /\ open' = open \cup {nConn + 1}
  /\ browser' = nConn + 1
  /\ page' = [tab |-> FirstPage, conn |-> nConn + 1]
  /\ Raise(p, "NoBrowserContext")
  /\ UNCHANGED <<kind, norm, chat, tool, req, shared, context, isReady, tabs, dom, nCalls, lastSel>>

\* ensureBrowser() resolved with a connection that exposes no context:
\* `if (contexts.length === 0) throw new Error("No browser context found")`.
ensureReady_noContext(p) ==
  /\ pc[p] = "er_connect"
  /\ portOpen
  /\ nConn' = nConn + 1
  /\ open' = open \cup {nConn + 1}
  /\ browser' = nConn + 1
  /\ Raise(p, "NoBrowserContext")
  /\ UNCHANGED <<kind, norm, chat, tool, req, shared, context, page, isReady, tabs, dom, nCalls, lastSel>>

\* ensureBrowser() rejected: no browser could be reached or launched.
ensureReady_noBrowser(p) ==
  /\ pc[p] = "er_connect"
  /\ Raise(p, "LaunchFailed")
  /\ UNCHANGED <<kind, norm, chat, tool, req, shared, session, conns, tabs, dom, nCalls, lastSel>>

\* context.newPage() resolved: `this.page = await this.context.newPage()`.
ensureReady_newPage(p) ==
  /\ pc[p] = "er_newpage"
  /\ hnd[p].conn \in open
  /\ tabs' = Append(tabs, Tab("other"))
  /\ page' = [tab |-> Len(tabs) + 1, conn |-> hnd[p].conn]
  /\ AfterPage(p, page', tabs')
  /\ UNCHANGED <<kind, norm, chat, tool, req, shared, browser, context, isReady, conns, dom, op,
                 prm, files, newTab, res, g, nCalls, lastSel>>

\* page.goto(app URL, domcontentloaded) resolved; the input wait is issued
\* on this.page.
ensureReady_goto(p) ==
  /\ pc[p] = "er_goto"
  /\ Usable(hnd[p])
  /\ tabs' = [tabs EXCEPT ![hnd[p].tab].url = "app"]
  /\ Suspend(p, "er_wait", page)
  /\ UNCHANGED <<kind, norm, chat, tool, req, shared, session, conns, dom, nCalls, lastSel>>

\* page.goto rejected (network error, navigation aborted).
ensureReady_gotoFails(p) ==
  /\ pc[p] = "er_goto"
  /\ Usable(hnd[p])
  /\ Raise(p, "NavigationFailed")
  /\ UNCHANGED <<kind, norm, chat, tool, req, shared, session, conns, tabs, dom, nCalls, lastSel>>

\* The ready flag set without the input having been seen.
ensureReady_ready_NoWait(p) ==
  /\ pc[p] = "er_wait"
  /\ Usable(hnd[p])
  /\ isReady' = TRUE
  /\ ErReturn(p, "ok", page)
  /\ UNCHANGED <<kind, norm, chat, tool, req, shared, browser, context, page, conns, tabs,
                 dom, op, prm, files, newTab, nCalls, lastSel>>

\* waitForSelector(input, visible) resolved: `this.isReady = true`.
ensureReady_ready(p) ==
  /\ pc[p] = "er_wait"
  /\ InputVisibleOn(hnd[p])
  /\ isReady' = TRUE
  /\ ErReturn(p, "ok", page)
  /\ UNCHANGED <<kind, norm, chat, tool, req, shared, browser, context, page, conns, tabs, dom,
                 op, prm, files, newTab, nCalls, lastSel>>

\* ------------------------------------------------------------------ close
\* `await closeBrowser(this.browser)`: browser.close() is issued when the
\* handle is not null.
close_enter(p) ==
  /\ pc[p] = "cl_start"
  /\ Suspend(p, "cl_closing", [tab |-> 0, conn |-> browser])
  /\ UNCHANGED <<kind, norm, chat, tool, req, shared, session, conns, tabs, dom, nCalls, lastSel>>

\* closeBrowser(b): the connection b is closed; `if (launchedByUs &&
\* chromeProcess)` the Chrome process is killed, which ends every tab and
\* every connection; the temporary profile directory is removed.
CloseBrowser(b) ==
  LET kills == launchedByUs /\ chrome.process # 0
      ends  == kills /\ chrome.owner = chrome.process
  IN /\ open' = IF ends THEN {} ELSE open \ {b}
     /\ tabs' = IF ends
                THEN [i \in DOMAIN tabs |-> [tabs[i] EXCEPT !.closed = TRUE]]
                ELSE tabs
     /\ portOpen' = (portOpen /\ ~ends)
     /\ chrome' = IF kills THEN [Killed(chrome) EXCEPT !.process = 0]
                           ELSE chrome
     /\ launchedByUs' = IF kills THEN FALSE ELSE launchedByUs
     /\ tempDir' = FALSE

\* close() that forgets to clear the ready flag.
close_done_KeepsReady(p) ==
  /\ pc[p] = "cl_closing"
  /\ CloseBrowser(hnd[p].conn)
  /\ browser' = 0
  /\ End(p, [out |-> "ok", err |-> "", sel |-> 0])
  /\ UNCHANGED <<kind, norm, chat, tool, req, peer, context, page, isReady, nConn, dom, nCalls,
                 lastSel>>

\* closeBrowser returned: `this.browser = null; this.isReady = false`.
close_done(p) ==
  /\ pc[p] = "cl_closing"
  /\ CloseBrowser(hnd[p].conn)
  /\ browser' = 0
  /\ isReady' = FALSE
  /\ End(p, [out |-> "ok", err |-> "", sel |-> 0])
  /\ UNCHANGED <<kind, norm, chat, tool, req, peer, context, page, nConn, dom, nCalls, lastSel>>

\* ---------------------------------------------------- sendMessage: steps
rest == <<kind, norm, chat, tool, req, shared, session, conns, tabs, nCalls, lastSel>>

\* Uploading, Gemini only (`if (files.length > 0)`).
\* plusButton.click() resolved; uploadButton.waitFor(visible) is issued.
upload_plus(p) ==
  /\ pc[p] = "up_plus"
  /\ ShowsApp(hnd[p])
  /\ Suspend(p, "up_wait", page)
  /\ UNCHANGED <<rest, dom>>

\* The upload button is visible; waitForEvent("filechooser") is armed and
\* uploadButton.click() is issued.
upload_wait(p) ==
  /\ pc[p] = "up_wait"
  /\ ShowsApp(hnd[p])
  /\ Suspend(p, "up_click", page)
  /\ UNCHANGED <<rest, dom>>

\* The click resolved and the file chooser event arrived;
\* fileChooser.setFiles(files) is issued.
upload_click(p) ==
  /\ pc[p] = "up_click"
  /\ ShowsApp(hnd[p])
  /\ Suspend(p, "up_set", hnd[p])
  /\ UNCHANGED <<rest, dom>>

\* The chooser is given the list twice.
upload_set_Twice(p) ==
  /\ pc[p] = "up_set"
  /\ ShowsApp(hnd[p])
  /\ g' = [g EXCEPT ![p].supplied = Append(Append(@, files[p]), files[p])]
  /\ Await(p, "up_settle", page)
  /\ UNCHANGED <<rest, dom, op, prm, files, newTab, res>>

\* setFiles resolved: the chooser got the list; waitForTimeout(5000).
upload_set(p) ==
  /\ pc[p] = "up_set"
  /\ ShowsApp(hnd[p])
  /\ g' = [g EXCEPT ![p].supplied = Append(@, files[p])]
  /\ Await(p, "up_settle", page)
  /\ UNCHANGED <<rest, dom, op, prm, files, newTab, res>>

\* The 5000 ms pause is over; waitForSelector(input) is issued.
upload_settle(p) ==
  /\ pc[p] = "up_settle"
  /\ Usable(hnd[p])
  /\ Suspend(p, "fill_wait", page)
  /\ UNCHANGED <<rest, dom>>

\* Filling.  waitForSelector(input) resolved; input.click() is issued.
fill_wait(p) ==
  /\ pc[p] = "fill_wait"
  /\ InputVisibleOn(hnd[p])
  /\ Suspend(p, "fill_click", hnd[p])
  /\ UNCHANGED <<rest, dom>>

\* The click resolved; after the 300 ms (ChatGPT 200 ms) pause
\* input.fill(prompt) is issued.
fill_click(p) ==
  /\ pc[p] = "fill_click"
  /\ InputVisibleOn(hnd[p])
  /\ Suspend(p, "fill_fill", hnd[p])
  /\ UNCHANGED <<rest, dom>>

\* fill resolved: the input holds the prompt.  Gemini pauses 500 ms and
\* issues sendButton.click(); ChatGPT issues
\* waitForSelector(send, visible, timeout 5000).
fill_fill(p) ==
  /\ pc[p] = "fill_fill"
  /\ InputVisibleOn(hnd[p])
  /\ inputText' = prm[p]
  /\ Await(p, IF kind = "gemini" THEN "submit" ELSE "submit_wait", page)
  /\ g' = [g EXCEPT ![p].send0 = SendVisibleOn(page), ![p].filled = TRUE]
  /\ UNCHANGED <<rest, inputVisible, sendVisible, stopVisible, pendingQ,
                 containers, bannered, op, prm, files, newTab, res>>

\* ChatGPT: the send button became visible within 5000 ms;
\* sendButton.click() is issued.
submit_wait(p) ==
  /\ pc[p] = "submit_wait"
  /\ SendVisibleOn(hnd[p])
  /\ Suspend(p, "submit", hnd[p])
  /\ UNCHANGED <<rest, dom>>

\* The expired wait for the send button answered by filling again.
submit_timeout_Retry(p) ==
  /\ pc[p] = "submit_wait"
  /\ Usable(hnd[p])
  /\ ~SendVisibleOn(hnd[p])
  /\ Suspend(p, "fill_click", hnd[p])
  /\ UNCHANGED <<rest, dom>>

\* ChatGPT: the 5000 ms expired with the send button not visible.
submit_timeout(p) ==
  /\ pc[p] = "submit_wait"
  /\ Usable(hnd[p])
  /\ ~SendVisibleOn(hnd[p])
  /\ Raise(p, "SendControlNotFound")
  /\ UNCHANGED <<rest, dom>>

\* Submitting.  The click on the send button resolved (Playwright clicks
\* once the button is visible; the page's default timeout is 0): the
\* application takes the content of the input as a prompt.  Gemini pauses
\* 2000 ms and asks stopButton.isVisible(); ChatGPT issues
\* stopButton.waitFor(visible, timeout 3000).
submit(p) ==
  /\ pc[p] = "submit"
  /\ SendVisibleOn(hnd[p])
  /\ pendingQ' = Append(pendingQ, inputText)
  /\ inputText' = 0
  /\ Await(p, IF kind = "gemini" THEN "aw_check" ELSE "aw_appear", page)
  /\ g' = [g EXCEPT ![p].sent = TRUE]
  /\ UNCHANGED <<rest, inputVisible, sendVisible, stopVisible, containers,
                 bannered, op, prm, files, newTab, res>>

\* A stop button that is not visible at the check treated as an error.
await_check_Strict(p) ==
  /\ pc[p] = "aw_check"
  /\ IF StopVisibleOn(hnd[p])
     THEN /\ Await(p, "aw_hidden", page)
          /\ g' = [g EXCEPT ![p].sawStop = TRUE]
          /\ res' = res
     ELSE Throw(p, "GenerationNotSeen") /\ g' = g
  /\ UNCHANGED <<rest, dom, op, prm, files, newTab>>

\* Gemini: `if (await stopButton.isVisible()) await stopButton.waitFor(hidden)`
\* inside try/catch; otherwise, and on an exception, waitForTimeout(1000).
await_check(p) ==
  /\ pc[p] = "aw_check"
  /\ Await(p, IF StopVisibleOn(hnd[p]) THEN "aw_hidden" ELSE "settle", page)
  /\ g' = [g EXCEPT ![p].sawStop = StopVisibleOn(hnd[p])]
  /\ UNCHANGED <<rest, dom, op, prm, files, newTab, res>>

\* ChatGPT: stopButton.waitFor(visible, 3000).catch(() => {}) is over, the
\* button having been seen, the time having expired or the call having
\* failed; stopButton.waitFor(hidden, timeout 0) is issued.
await_appear(p) ==
  /\ pc[p] = "aw_appear"
  /\ Await(p, "aw_hidden", page)
  /\ g' = [g EXCEPT ![p].sawStop = StopVisibleOn(hnd[p])]
  /\ UNCHANGED <<rest, dom, op, prm, files, newTab, res>>

\* A wait for the stop button that returns at once.
StopHidden_NoWait(h) == TRUE

\* stopButton.waitFor(hidden) resolves once the stop button is not visible.
StopHidden(h) == ~StopVisibleOn(h)

\* A wait for the hidden stop button that resolves only while it shows.
await_hidden_Stuck(p) ==
  /\ pc[p] = "aw_hidden"
  /\ StopVisibleOn(hnd[p])
  /\ Suspend(p, "settle", page)
  /\ UNCHANGED <<rest, dom>>

\* stopButton.waitFor(hidden) resolved; the settle pause is issued
\* (Gemini 1000 ms, ChatGPT 500 ms).
await_hidden(p) ==
  /\ pc[p] = "aw_hidden"
  /\ Usable(hnd[p])
  /\ StopHidden(hnd[p])
  /\ Suspend(p, "settle", page)
  /\ UNCHANGED <<rest, dom>>

\* stopButton.waitFor(hidden) rejected (the page is gone).  Gemini's catch
\* ignores it; ChatGPT's catch runs waitForTimeout(3000).
await_caught(p) ==
  /\ pc[p] = "aw_hidden"
  /\ ~Usable(hnd[p])
  /\ Suspend(p, IF kind = "gemini" THEN "settle" ELSE "aw_grace", page)
  /\ UNCHANGED <<rest, dom>>

\* A fixed pause is over on a live page.  After ChatGPT's 3000 ms in the
\* catch block the settle pause is issued; after the settle pause (Gemini
\* 1000 ms, ChatGPT 500 ms) locator(answer containers).all() is issued.
settle(p) ==
  /\ pc[p] \in {"aw_grace", "settle"}
  /\ Usable(hnd[p])
  /\ Suspend(p, IF pc[p] = "aw_grace" THEN "settle" ELSE "extract", page)
  /\ UNCHANGED <<rest, dom>>

\* The answer containers the locator finds on page h.
Responses(h) == IF ShowsApp(h) THEN containers ELSE <<>>

\* The first container instead of the last.
LastResponse_First(responses) == 1

\* `responses[responses.length - 1]`: the position of the chosen container.
LastResponse(responses) == Len(responses)

\* Extracting: `if (responses.length === 0) throw ...`, else the last
\* container is read and its text returned.
extract(p) ==
  /\ pc[p] = "extract"
  /\ Usable(hnd[p])
  /\ LET responses == Responses(hnd[p]) IN
     /\ IF Len(responses) = 0
        THEN /\ Throw(p, "NoResponseFound")
             /\ lastSel' = lastSel
        ELSE /\ Finish(p, [out |-> "text", err |-> "",
                           sel |-> LastResponse(responses)])
             /\ lastSel' = LastResponse(responses)
  /\ UNCHANGED <<kind, norm, chat, tool, req, shared, session, conns, tabs, nCalls, dom, op, prm,
                 files, newTab, g>>

\* Awaits whose rejection is not caught inside the adapter.
Uncaught == {"er_goto", "er_wait", "up_plus", "up_wait", "up_click", "up_set",
             "up_settle", "fill_wait", "fill_click", "fill_fill",
             "submit_wait", "submit", "aw_grace", "settle", "extract"}

\* A rejected page operation that also clears the ready flag.
targetClosed_Unready(p) ==
  /\ \/ pc[p] \in Uncaught /\ ~Usable(hnd[p])
     \/ pc[p] = "er_newpage" /\ hnd[p].conn \notin open
  /\ Raise(p, "TargetClosed")
  /\ isReady' = FALSE
  /\ UNCHANGED <<kind, norm, chat, tool, req, shared, browser, context, page, conns, tabs,
                 nCalls, lastSel, dom>>

\* The page (or, for newPage, the connection) of a pending operation is
\* gone: the operation rejects and the exception leaves the call.
targetClosed(p) ==
  /\ \/ pc[p] \in Uncaught /\ ~Usable(hnd[p])
     \/ pc[p] = "er_newpage" /\ hnd[p].conn \notin open
  /\ Raise(p, "TargetClosed")
  /\ UNCHANGED <<rest, dom>>

\* ------------------------------------------------------------ environment
\* The browser, the web application and the operator act on their own.
envRest == <<kind, norm, chat, tool, req, shared, session, conns, callers, nCalls, lastSel>>

\* The application in the session's tab shows or hides its prompt input
\* (skeleton, login wall, dialog).
InputChanges ==
  /\ ShowsApp(page)
  /\ inputVisible' = ~inputVisible
  /\ UNCHANGED <<envRest, tabs, sendVisible, stopVisible, inputText, pendingQ,
                 containers, bannered>>

\* The application in the session's tab shows or hides its send button
\* while the input holds a prompt.
SendChanges ==
  /\ ShowsApp(page)
  /\ inputText # 0
  /\ sendVisible' = ~sendVisible
  /\ UNCHANGED <<envRest, tabs, inputVisible, stopVisible, inputText, pendingQ,
                 containers, bannered>>

\* The operator navigates the session's tab away from the application.
OperatorNavigates ==
  /\ page.tab # 0
  /\ ~tabs[page.tab].closed
  /\ tabs[page.tab].url = "app"
  /\ tabs' = [tabs EXCEPT ![page.tab].url = "other"]
  /\ UNCHANGED <<envRest, dom>>

\* The operator closes the session's tab.
TabCloses ==
  /\ page.tab # 0
  /\ ~tabs[page.tab].closed
  /\ tabs' = [tabs EXCEPT ![page.tab].closed = TRUE]
  /\ UNCHANGED <<envRest, dom>>

\* The application starts generating the answer to the oldest pending
\* prompt: the stop button appears.
AppBegins ==
  /\ pendingQ # <<>>
  /\ ~stopVisible
  /\ stopVisible' = TRUE
  /\ UNCHANGED <<envRest, tabs, inputVisible, sendVisible, inputText, pendingQ,
                 containers, bannered>>

\* The application finishes the oldest pending prompt with an answer: a new
\* answer container is appended and the stop button, if shown, disappears.
AppAnswers ==
  /\ pendingQ # <<>>
  /\ containers' = Append(containers, Head(pendingQ))
  /\ pendingQ' = Tail(pendingQ)
  /\ stopVisible' = FALSE
  /\ UNCHANGED <<envRest, tabs, inputVisible, sendVisible, inputText, bannered>>

\* The application finishes the oldest pending prompt with an error banner
\* or a CAPTCHA: no answer container is added.
AppRefuses ==
  /\ pendingQ # <<>>
  /\ bannered' = bannered \cup {Head(pendingQ)}
  /\ pendingQ' = Tail(pendingQ)
  /\ stopVisible' = FALSE
  /\ UNCHANGED <<envRest, tabs, inputVisible, sendVisible, inputText,
                 containers>>

\* ------------------------------------------------------------------- Next
\* One segment of a call of caller p.
Step(p) ==
  \/ handler(p)
  \/ CallEnsureReady(p)
  \/ CallSendMessage(p)
  \/ CallClose(p)
  \/ ensureReady_enter(p)
  \/ ensureReady_connected(p)
  \/ ensureReady_noContext(p)
  \/ ensureReady_noBrowser(p)
  \/ ensureReady_newPage(p)
  \/ ensureReady_goto(p)
  \/ ensureReady_gotoFails(p)
  \/ ensureReady_ready(p)
  \/ sendMessage_enter(p)
  \/ upload_plus(p)
  \/ upload_wait(p)
  \/ upload_click(p)
  \/ upload_set(p)
  \/ upload_settle(p)
  \/ fill_wait(p)
  \/ fill_click(p)
  \/ fill_fill(p)
  \/ submit_wait(p)
  \/ submit_timeout(p)
  \/ submit(p)
  \/ await_check(p)
  \/ await_appear(p)
  \/ await_hidden(p)
  \/ await_caught(p)
  \/ settle(p)
  \/ extract(p)
  \/ targetClosed(p)
  \/ close_enter(p)
  \/ close_done(p)

\* One step of the application.
App == AppBegins \/ AppAnswers \/ AppRefuses

\* One step of the page or the operator.
Env == InputChanges \/ SendChanges \/ OperatorNavigates \/ TabCloses

\* One caller that issues its calls one after the other (a command line
\* tool, or the facade under sequential requests), in a free environment.
Next == Step(1) \/ App \/ Env

Spec == Init /\ [][Next]_vars

\* The awaits of caller p that resolve or reject once their condition
\* holds: Playwright polls the page for the awaited state and the timers
\* fire.  The three waits on the attach controls (the upload menu button,
\* the upload button, the file chooser event) are left out: with the
\* default timeout 0 they last as long as the application does not offer
\* the control.
Progress(p) ==
  \/ ensureReady_enter(p)
  \/ ensureReady_connected(p)
  \/ ensureReady_newPage(p)
  \/ ensureReady_goto(p)
  \/ ensureReady_ready(p)
  \/ sendMessage_enter(p)
  \/ upload_set(p)
  \/ upload_settle(p)
  \/ fill_wait(p)
  \/ fill_click(p)
  \/ fill_fill(p)
  \/ submit_wait(p)
  \/ submit_timeout(p)
  \/ submit(p)
  \/ await_check(p)
  \/ await_appear(p)
  \/ await_hidden(p)
  \/ await_caught(p)
  \/ settle(p)
  \/ extract(p)
  \/ targetClosed(p)
  \/ close_enter(p)
  \/ close_done(p)

\* The one caller of Spec, with awaits that do resolve, on a tab that the
\* operator may close but does not navigate away from the application.
NextLive == Step(1) \/ App \/ InputChanges \/ SendChanges \/ TabCloses

SpecLive == Init /\ [][NextLive]_vars /\ SF_vars(Progress(1))

\* The facade (main.ts): every POST to /api/generate or /api/chat runs
\* handler on the one module-level GeminiAdapter, and requests overlap.
InitFacade == Init /\ kind = "gemini"

Request(p) ==
  \/ handler(p)
  \/ ensureReady_enter(p)
  \/ ensureReady_connected(p)
  \/ ensureReady_noContext(p)
  \/ ensureReady_noBrowser(p)
  \/ ensureReady_newPage(p)
  \/ ensureReady_goto(p)
  \/ ensureReady_gotoFails(p)
  \/ ensureReady_ready(p)
  \/ fill_wait(p)
  \/ fill_click(p)
  \/ fill_fill(p)
  \/ submit(p)
  \/ await_check(p)
  \/ await_hidden(p)
  \/ settle(p)
  \/ extract(p)

NextFacade == (\E p \in Procs : Request(p)) \/ App

SpecFacade == InitFacade /\ [][NextFacade]_vars

\* ------------------------------------------------- the facade's answers
\* The catch blocks of the handler answering with the error's message.
Response_Leaks(p) ==
  IF res[p].out = "text"
  THEN [status |-> 200, model |-> req[p].model, content |-> res[p].sel,
        error |-> ""]
  ELSE [status |-> 500, model |-> "", content |-> 0, error |-> res[p].err]

\* The Response the handler returns for the finished request of caller p:
\* the adapter's text with `model: body.model`, or from the catch block
\* status 500 with `{ error: "Generation failed" }` / `"Chat failed"`.
Response(p) ==
  IF res[p].out = "text"
  THEN [status |-> 200, model |-> req[p].model, content |-> res[p].sel,
        error |-> ""]
  ELSE [status |-> 500, model |-> "", content |-> 0,
        error |-> IF req[p].path = "/api/generate" THEN "Generation failed"
                                                     ELSE "Chat failed"]

\* The requests a client may send.
Methods == {"GET", "POST", "OPTIONS"}
AllPaths == {"/", "/api/generate", "/api/chat", "/api/tags", "/api/show",
             "/api/version"}

\* The chain of tests of handler with the method test of the generate
\* route left out.
Route_AnyMethod(method, path) ==
  CASE method = "OPTIONS" -> "preflight"
    [] method # "OPTIONS" /\ path = "/" -> "health"
    [] method # "OPTIONS" /\ path = "/api/generate" -> "generate"
    [] method = "POST" /\ path = "/api/chat" -> "chat"
    [] method = "GET" /\ path = "/api/tags" -> "tags"
    [] method = "POST" /\ path = "/api/show" -> "show"
    [] OTHER -> "notfound"

\* The chain of tests of handler: the branch that answers the request.
Route(method, path) ==
  CASE method = "OPTIONS" -> "preflight"
    [] method # "OPTIONS" /\ path = "/" -> "health"
    [] method = "POST" /\ path = "/api/generate" -> "generate"
    [] method = "POST" /\ path = "/api/chat" -> "chat"
    [] method = "GET" /\ path = "/api/tags" -> "tags"
    [] method = "POST" /\ path = "/api/show" -> "show"
    [] OTHER -> "notfound"

\* The status of the Response of the branches that do not call the adapter.
StaticStatus(r) == IF r = "notfound" THEN 404 ELSE 200

\* A request arrives and handler runs up to its first await on the adapter
\* (generate, chat: `await gemini.ensureReady()`) or up to its return.
serve(p) ==
  \E method \in Methods, path \in AllPaths :
    LET r  == Route(method, path)
        rq == [path |-> path, model |-> "gemini-browser", method |-> method]
    IN IF r \in {"generate", "chat"}
       THEN Call(p, "handler", FALSE, <<>>, rq)
       ELSE /\ pc[p] = "idle"
            /\ nCalls < MaxCalls
            /\ nCalls' = nCalls + 1
            /\ req' = [req EXCEPT ![p] = rq]
            /\ op' = [op EXCEPT ![p] = r]
            /\ res' = [res EXCEPT ![p] =
                         [out |-> "static", err |-> "", sel |-> StaticStatus(r)]]
            /\ UNCHANGED <<kind, norm, chat, tool, shared, session, conns, tabs,
                           dom, pc, prm, files, newTab, hnd, g, lastSel>>

\* One segment of the handler serving a request of caller p.
Served(p) ==
  \/ post(p)
  \/ serve(p)
  \/ ensureReady_enter(p)
  \/ ensureReady_connected(p)
  \/ ensureReady_noContext(p)
  \/ ensureReady_noBrowser(p)
  \/ ensureReady_newPage(p)
  \/ ensureReady_goto(p)
  \/ ensureReady_gotoFails(p)
  \/ ensureReady_ready(p)
  \/ fill_wait(p)
  \/ fill_click(p)
  \/ fill_fill(p)
  \/ submit(p)
  \/ await_check(p)
  \/ await_hidden(p)
  \/ await_caught(p)
  \/ settle(p)
  \/ extract(p)
  \/ targetClosed(p)

\* The facade under sequential requests of any model name on both routes;
\* the operator may close the tab.
NextRoutes == Served(1) \/ App \/ TabCloses

SpecRoutes == InitFacade /\ [][NextRoutes]_vars

\* ------------------------------------------ two adapters in one process
\* browser.ts keeps chromeProcess, launchedByUs and tempDir at module level:
\* every adapter instance of the process calls the same ensureBrowser and
\* closeBrowser.  The second instance is followed only as far as its
\* this.browser.

\* The second adapter's ensureReady reaches `this.browser = await
\* ensureBrowser()`, launching Chrome when the port is closed.
PeerEnsureReady ==
  /\ peer = 0
  /\ nCalls < Limit("prepare")
  /\ nCalls' = nCalls + 1
  /\ IF portOpen
     THEN UNCHANGED <<portOpen, launchedByUs, tempDir, chrome, tabs>>
     ELSE LaunchChrome
  /\ nConn' = nConn + 1
  /\ open' = open \cup {nConn + 1}
  /\ peer' = nConn + 1
  /\ UNCHANGED <<kind, norm, chat, tool, req, session, dom, callers, lastSel>>

\* The second adapter's close(): `await closeBrowser(this.browser);
\* this.browser = null`.
PeerClose ==
  /\ nCalls < Limit("release")
  /\ nCalls' = nCalls + 1
  /\ CloseBrowser(peer)
  /\ peer' = 0
  /\ UNCHANGED <<kind, norm, chat, tool, req, session, nConn, dom, callers, lastSel>>

\* Chrome may or may not be running when the process starts.
InitPeers ==
  /\ Constructed
  /\ NoExtraction /\ NoChat /\ NoTool
  /\ portOpen \in BOOLEAN
  /\ chrome = NoChrome(portOpen)
  /\ tabs \in (IF portOpen THEN InitTabs ELSE {<<>>})

\* One segment of a prepare or release call of caller p.
Lifecycle(p) ==
  \/ CallEnsureReady(p)
  \/ CallClose(p)
  \/ ensureReady_enter(p)
  \/ ensureReady_launch(p)
  \/ ensureReady_connected(p)
  \/ ensureReady_noContext(p)
  \/ ensureReady_noBrowser(p)
  \/ ensureReady_newPage(p)
  \/ ensureReady_goto(p)
  \/ ensureReady_gotoFails(p)
  \/ ensureReady_ready(p)
  \/ targetClosed(p)
  \/ close_enter(p)
  \/ close_done(p)

NextPeers == Lifecycle(1) \/ PeerEnsureReady \/ PeerClose

SpecPeers == InitPeers /\ [][NextPeers]_vars

\* ------------------------------------------- browser.ts, called directly
\* A caller of browser.ts issues ensureBrowser() and closeBrowser(b) calls
\* one after the other; b is a connection it got from ensureBrowser, or null.
nonBrowser == <<kind, norm, chat, tool, req, peer, session, dom, prm, files,
                newTab, g, lastSel>>

CallBrowser(p, c, at, b) ==
  /\ pc[p] = "idle"
  /\ nCalls < Limit("release")
  /\ nCalls' = nCalls + 1
  /\ op' = [op EXCEPT ![p] = c]
  /\ pc' = [pc EXCEPT ![p] = at]
  /\ hnd' = [hnd EXCEPT ![p] = [tab |-> 0, conn |-> b]]
  /\ res' = [res EXCEPT ![p] = NoRes]
  /\ UNCHANGED <<nonBrowser, portOpen, launchedByUs, tempDir, chrome, conns, tabs>>

\* ensureBrowser() is called: `await isPortOpen()` is issued.
ensureBrowser_enter(p) == CallBrowser(p, "ensureBrowser", "eb_check", 0)

\* closeBrowser(b) is called: `await browser.close()` is issued for b # null.
closeBrowser_enter(p) ==
  \E b \in open \cup {0} : CallBrowser(p, "closeBrowser", "cb_closing", b)

\* isPortOpen() resolved.  Port open: connectOverCDP is issued.  Port
\* closed: launchChrome() spawns the first Chrome it finds (the paths that
\* are not installed are skipped by the catch block) and starts polling.
ensureBrowser_check(p) ==
  /\ pc[p] = "eb_check"
  /\ IF portOpen
     THEN Await(p, "eb_connect", NoPage) /\ chrome' = chrome
     ELSE Await(p, "eb_poll", NoPage) /\ chrome' = Spawned(chrome, FALSE)
  /\ UNCHANGED <<nonBrowser, op, res, portOpen, launchedByUs, tempDir, conns,
                 tabs, nCalls>>

\* launchChrome(): a poll finds the port open: `launchedByUs = true; return`.
launchChrome_launched(p) ==
  /\ pc[p] = "eb_poll"
  /\ portOpen
  /\ launchedByUs' = TRUE
  /\ Await(p, "eb_connect", NoPage)
  /\ UNCHANGED <<nonBrowser, op, res, portOpen, tempDir, chrome, conns, tabs,
                 nCalls>>

\* launchChrome(): thirty polls found the port closed: `chromeProcess.kill()`,
\* no other path is installed, the error is thrown.
launchChrome_giveUp(p) ==
  /\ pc[p] = "eb_poll"
  /\ ~portOpen
  /\ chrome' = Killed(chrome)
  /\ Throw(p, "LaunchFailed")
  /\ UNCHANGED <<nonBrowser, op, portOpen, launchedByUs, tempDir, conns, tabs,
                 nCalls>>

\* chromium.connectOverCDP(CDP_URL) resolved with a new connection.
ensureBrowser_connect(p) ==
  /\ pc[p] = "eb_connect"
  /\ portOpen
  /\ nConn' = nConn + 1
  /\ open' = open \cup {nConn + 1}
  /\ Finish(p, [out |-> "ok", err |-> "", sel |-> 0])
  /\ UNCHANGED <<nonBrowser, op, portOpen, launchedByUs, tempDir, chrome, tabs,
                 nCalls>>

\* connectOverCDP rejected: nothing listens on the port any more.
ensureBrowser_refused(p) ==
  /\ pc[p] = "eb_connect"
  /\ ~portOpen
  /\ Throw(p, "ConnectFailed")
  /\ UNCHANGED <<nonBrowser, op, portOpen, launchedByUs, tempDir, chrome, conns,
                 tabs, nCalls>>

\* browser.close() resolved; the rest of closeBrowser runs.
closeBrowser_done(p) ==
  /\ pc[p] = "cb_closing"
  /\ CloseBrowser(hnd[p].conn)
  /\ Finish(p, [out |-> "ok", err |-> "", sel |-> 0])
  /\ UNCHANGED <<nonBrowser, op, nConn, nCalls>>

browserEnv == <<nonBrowser, op, pc, hnd, res, launchedByUs, tempDir, nConn, tabs,
                nCalls>>

\* The port is free and the operator (or another program) starts a Chrome
\* that listens on it.
OperatorStarts ==
  /\ ~portOpen
  /\ portOpen' = TRUE
  /\ chrome' = [chrome EXCEPT !.owner = Operator]
  /\ UNCHANGED <<browserEnv, open>>

\* The operator's Chrome quits.
OperatorQuits ==
  /\ chrome.owner = Operator
  /\ portOpen' = FALSE
  /\ chrome' = [chrome EXCEPT !.owner = 0]
  /\ open' = {}
  /\ UNCHANGED browserEnv

\* A spawned Chrome finishes starting and binds the free port.
ChromeOpensPort ==
  \E i \in DOMAIN chrome.procs :
    /\ chrome.procs[i].alive
    /\ ~portOpen
    /\ portOpen' = TRUE
    /\ chrome' = [chrome EXCEPT !.owner = i, !.procs[i].opened = TRUE]
    /\ UNCHANGED <<browserEnv, open>>

\* A spawned Chrome exits on its own (its window is closed).
ChromeExits ==
  \E i \in DOMAIN chrome.procs :
    /\ chrome.procs[i].alive
    /\ chrome' = [chrome EXCEPT !.procs[i].alive = FALSE,
                                !.owner = IF @ = i THEN 0 ELSE @]
    /\ portOpen' = (portOpen /\ chrome.owner # i)
    /\ open' = IF chrome.owner = i THEN {} ELSE open
    /\ UNCHANGED browserEnv

InitBrowser ==
  /\ Constructed /\ kind = "gemini" /\ inputVisible = TRUE
  /\ NoExtraction /\ NoChat /\ NoTool
  /\ portOpen \in BOOLEAN
  /\ chrome = NoChrome(portOpen)
  /\ tabs = <<>>

NextBrowser ==
  \/ ensureBrowser_enter(1)
  \/ closeBrowser_enter(1)
  \/ ensureBrowser_check(1)
  \/ launchChrome_launched(1)
  \/ launchChrome_giveUp(1)
  \/ ensureBrowser_connect(1)
  \/ ensureBrowser_refused(1)
  \/ closeBrowser_done(1)
  \/ OperatorStarts
  \/ OperatorQuits
  \/ ChromeOpensPort
  \/ ChromeExits

SpecBrowser == InitBrowser /\ [][NextBrowser]_vars

\* ------------------------------------------------------ answer normalizer
\* Text is a sequence of tokens: the characters of Chars, and in the
\* output also the markup the extraction writes (Fence, Backquote, "# ", ...) and
\* the language tag of a fence.
Chars == {"x", " ", "\n"}
Texts == UNION { [1..n -> Chars] : n \in 0..MaxLen }

\* The markup tokens of three backquotes and of one backquote.
Fence == "<fence>"
Backquote == "<backquote>"

IsSpace(c) == c \in {" ", "\n"}

RECURSIVE TrimStart(_)
TrimStart(s) ==
  IF s = <<>> THEN s
  ELSE IF IsSpace(Head(s)) THEN TrimStart(Tail(s)) ELSE s

RECURSIVE TrimEnd(_)
TrimEnd(s) ==
  IF s = <<>> THEN s
  ELSE IF IsSpace(s[Len(s)]) THEN TrimEnd(SubSeq(s, 1, Len(s) - 1)) ELSE s

\* String.prototype.trim
trim(s) == TrimEnd(TrimStart(s))

\* Texts of the decoration element of a code block; NoDeco: the block has no
\* decoration element.
NoDeco == "(no decoration)"
RawLabels == {"python", " Python ", "shell", "c++", "kotlin", "Code snippet",
              "Copy code", "constructor"}

\* textContent.trim().toLowerCase() of a decoration label
TrimLower(l) ==
  CASE l = " Python "     -> "python"
    [] l = "Code snippet" -> "code snippet"
    [] l = "Copy code"    -> "copy code"
    [] OTHER              -> l

\* DOM nodes.  `text` is the text below the node (for a code block: the code
\* text), `code` tells whether that text sits in the code element the
\* extraction queries, `kids` are the child nodes of a wrapper or list.
Node(t, x, d, c, k) == [tag |-> t, text |-> x, deco |-> d, code |-> c, kids |-> k]
TextNode(x) == Node("#text", x, NoDeco, FALSE, <<>>)
Elem(t, x)  == Node(t, x, NoDeco, FALSE, <<>>)
CodeBlock(t, d, c, x) == Node(t, x, d, c, <<>>)
Wrapper(t, k) == Node(t, <<>>, NoDeco, FALSE, k)

\* The element that holds a code block: <code-block> on Gemini, <pre> on
\* ChatGPT.
CodeTag(v) == IF v = "chatgpt" THEN "pre" ELSE "code-block"

CodeBlocks(v) ==
  { CodeBlock(CodeTag(v), d, c, x) :
      d \in RawLabels \cup {NoDeco}, c \in BOOLEAN, x \in Texts }

Leaves ==
  { TextNode(x) : x \in Texts }
    \cup { Elem(t, x) : t \in {"p", "h1", "h2", "h3", "code"}, x \in Texts }
    \cup { Elem("hr", <<>>) }

Wrappers ==
  { Wrapper(t, <<TextNode(x), Elem("p", y)>>) :
      t \in {"response-element", "div"}, x \in Texts, y \in Texts }

Lists ==
  { Wrapper(t, k) :
      t \in {"ul", "ol"},
      k \in { <<Elem("li", x)>> : x \in Texts }
              \cup { <<TextNode(x), Elem("li", y)>> : x \in Texts, y \in Texts } }

\* Answer containers handed to the extraction of variant v: `markdown` tells
\* whether the container has the .markdown body; `kids` are the children of
\* the body (of the container itself when there is no body).  The two
\* adapters that convert with turndown are applied to the subtrees their own
\* rule converts.
Containers(v) ==
  { [markdown |-> b, kids |-> <<n>>] :
      b \in BOOLEAN,
      n \in IF v = "walk" THEN Leaves \cup CodeBlocks(v) \cup Wrappers \cup Lists
            ELSE CodeBlocks(v) }

Variants == {"walk", "gemini", "chatgpt"}

RECURSIVE Concat(_)
Concat(ss) == IF ss = <<>> THEN <<>> ELSE Head(ss) \o Concat(Tail(ss))

DecoText(n) == IF n.deco = NoDeco THEN <<>> ELSE <<n.deco>>

\* Node.textContent
RECURSIVE textContent(_)
textContent(n) ==
  DecoText(n) \o n.text
    \o Concat([i \in 1..Len(n.kids) |-> textContent(n.kids[i])])

\* HTMLElement.innerText / Locator.innerText of the container: the text of
\* its nodes in document order (the line breaks that layout adds are left
\* out).
innerText(el) == Concat([i \in 1..Len(el.kids) |-> textContent(el.kids[i])])

\* The language tag as written behind the opening fence.
Tag(l) == IF l = "" THEN <<>> ELSE <<l>>

\* langSpan?.textContent?.trim().toLowerCase() || ""
rawLang(n) == IF n.deco = NoDeco THEN "" ELSE TrimLower(n.deco)

\* langMap[rawLang] ?? rawLang.  langMap is an object literal, so a label
\* that names a property of Object.prototype finds that property.
langMap(l) ==
  CASE l = "code snippet" -> ""
    [] l = "shell"        -> "bash"
    [] l = "c++"          -> "cpp"
    [] l = "constructor"  -> "function Object() { [native code] }"
    [] OTHER              -> l

OrderedPrefix(i) == IF i = 1 THEN "1. " ELSE "2. "

\* The <li> children of a list, in order (:scope > li).
RECURSIVE Items(_)
Items(k) ==
  IF k = <<>> THEN <<>>
  ELSE IF Head(k).tag = "li" THEN <<Head(k)>> \o Items(Tail(k))
  ELSE Items(Tail(k))

\* The child elements of a node (elem.children).
RECURSIVE children(_)
children(k) ==
  IF k = <<>> THEN <<>>
  ELSE IF Head(k).tag # "#text" THEN <<Head(k)>> \o children(Tail(k))
  ELSE children(Tail(k))

\* extractFormattedResponse.processNode: what the call appends to `result`.
RECURSIVE processNode(_)
processNode(n) ==
  CASE n.tag = "#text" -> IF trim(n.text) # <<>> THEN n.text ELSE <<>>
    [] n.tag = "code-block" ->
         IF n.code
         THEN <<"\n", Fence>> \o Tag(langMap(rawLang(n))) \o <<"\n">>
                \o trim(n.text) \o <<"\n", Fence, "\n">>
         ELSE <<>>
    [] n.tag = "code" -> <<Backquote>> \o textContent(n) \o <<Backquote>>
    [] n.tag = "h1" -> <<"\n", "# ">> \o textContent(n) \o <<"\n">>
    [] n.tag = "h2" -> <<"\n", "## ">> \o textContent(n) \o <<"\n">>
    [] n.tag = "h3" -> <<"\n", "### ">> \o textContent(n) \o <<"\n">>
    [] n.tag = "p" -> n.text \o <<"\n", "\n">>
    [] n.tag \in {"ul", "ol"} ->
         LET li == Items(n.kids) IN
         Concat([i \in 1..Len(li) |->
                   <<IF n.tag = "ol" THEN OrderedPrefix(i) ELSE "- ">>
                     \o trim(textContent(li[i])) \o <<"\n">>])
           \o <<"\n">>
    [] n.tag = "hr" -> <<"\n", "---", "\n">>
    [] n.tag = "response-element" ->
         LET k == children(n.kids) IN
         Concat([i \in 1..Len(k) |-> processNode(k[i])])
    [] OTHER -> Concat([i \in 1..Len(n.kids) |-> processNode(n.kids[i])])

\* The extraction without the final trim of the joined result.
extractFormattedResponse_NoTrim(el) ==
  IF ~el.markdown THEN innerText(el)
  ELSE Concat([i \in 1..Len(el.kids) |-> processNode(el.kids[i])])

\* GeminiAdapter.extractFormattedResponse (the tree-walking extraction)
extractFormattedResponse(el) ==
  IF ~el.markdown THEN innerText(el)
  ELSE trim(Concat([i \in 1..Len(el.kids) |-> processNode(el.kids[i])]))

\* turndown rule geminiCodeBlock: the replacement of a <code-block>
geminiCodeBlock(n) ==
  LET l    == rawLang(n)
      lang == IF l = "code snippet" THEN "" ELSE l
      code == IF n.code THEN n.text ELSE <<>>
  IN <<"\n", "\n", Fence>> \o Tag(lang) \o <<"\n">> \o trim(code)
       \o <<"\n", Fence, "\n", "\n">>

\* turndown rule chatgptCodeBlock: the replacement of a <pre>
chatgptCodeBlock(n) ==
  LET l    == rawLang(n)
      lang == IF l = "copy code" THEN "" ELSE l
  IN IF ~n.code
     THEN <<"\n", Fence, "\n">> \o textContent(n) \o <<"\n", Fence, "\n">>
     ELSE <<"\n", Fence>> \o Tag(lang) \o <<"\n">> \o n.text
            \o <<"\n", Fence, "\n", "\n">>

\* turndown.turndown(html) on the subtrees a rule of the adapter converts:
\* the replacements are joined and the surrounding line breaks stripped.
turndown(v, k) ==
  trim(Concat([i \in 1..Len(k) |->
                 IF v = "gemini" THEN geminiCodeBlock(k[i])
                 ELSE chatgptCodeBlock(k[i])]))

\* GeminiAdapter.sendMessage: markdown?.innerHTML || el.innerHTML, converted
GeminiResponseText(el) == turndown("gemini", el.kids)

\* ChatGPTAdapter.sendMessage: innerText() without .markdown, else converted
ChatGPTResponseText(el) ==
  IF ~el.markdown THEN innerText(el) ELSE turndown("chatgpt", el.kids)

driver == <<kind, chat, tool, req, shared, session, conns, tabs, dom, callers, nCalls,
            lastSel>>

\* An answer container is selected and not yet converted.
InitNormalize ==
  /\ Constructed /\ kind = "gemini" /\ inputVisible = TRUE
  /\ NoChat /\ NoTool
  /\ portOpen = TRUE /\ tabs = <<>>
  /\ chrome = NoChrome(portOpen)
  /\ variant \in Variants
  /\ tree \in Containers(variant)
  /\ out = <<>>

Returns(v, text) ==
  /\ variant = v
  /\ out = <<>>
  /\ out' = <<text>>
  /\ UNCHANGED <<variant, tree, driver>>

walk_extract    == Returns("walk", extractFormattedResponse(tree))
gemini_extract  == Returns("gemini", GeminiResponseText(tree))
chatgpt_extract == Returns("chatgpt", ChatGPTResponseText(tree))

NextNormalize == walk_extract \/ gemini_extract \/ chatgpt_extract

SpecNormalize == InitNormalize /\ [][NextNormalize]_vars

\* ------------------------------------------ /api/chat: the single prompt
\* Messages of a chat request body: a role and a content.
Roles == {"system", "user", "assistant"}
Contents == {"a", "b"}
Msg(r, c) == [role |-> r, content |-> c]
Bodies ==
  UNION { [1..n -> {Msg(r, c) : r \in Roles, c \in Contents}] : n \in 0..MaxMsgs }

IsSystem(m) == m.role = "system"
NotSystem(m) == m.role # "system"

\* `for (const msg of userMessages) fullPrompt += ...`
RECURSIVE Lines(_)
Lines(ms) ==
  IF ms = <<>> THEN <<>>
  ELSE <<Head(ms).role, ": ", Head(ms).content, "\n">> \o Lines(Tail(ms))

\* handler, /api/chat: `systemMsg = body.messages.find(...)`,
\* `userMessages = body.messages.filter(...)`, then fullPrompt is built.
ChatPrompt(ms) ==
  LET sys == SelectSeq(ms, IsSystem)
  IN (IF sys # <<>> THEN <<Head(sys).content, "\n", "\n">> ELSE <<>>)
       \o Lines(SelectSeq(ms, NotSystem))

InitChat ==
  /\ Constructed /\ kind = "gemini" /\ inputVisible = TRUE
  /\ NoExtraction /\ NoTool
  /\ portOpen = TRUE /\ tabs = <<>>
  /\ chrome = NoChrome(portOpen)
  /\ messages \in Bodies
  /\ fullPrompt = <<>>

\* The handler converts the messages of the body.
chat_prompt ==
  /\ fullPrompt = <<>>
  /\ fullPrompt' = <<ChatPrompt(messages)>>
  /\ UNCHANGED <<messages, kind, norm, tool, req, shared, session, conns, tabs,
                 dom, callers, nCalls, lastSel>>

NextChat == chat_prompt

SpecChat == InitChat /\ [][NextChat]_vars

\* --------------------------------------------- gemini-chat: the arguments
\* The command line after option parsing, item by item: --prompt/-p with
\* its value, --file/-f with its value, --keep-alive, or a positional.
Arg(o, v) == [opt |-> o, val |-> v]
ArgItems ==
  {Arg("prompt", v) : v \in {"", "x"}}
    \cup {Arg("file", "f"), Arg("keep-alive", "")}
    \cup {Arg("pos", v) : v \in {"", "a", "b"}}
Argvs == UNION { [1..n -> ArgItems] : n \in 0..MaxArgs }

IsPrompt(a) == a.opt = "prompt"
IsFile(a)   == a.opt = "file"
IsPos(a)    == a.opt = "pos"
IsKeep(a)   == a.opt = "keep-alive"

Vals(as) == [i \in 1..Len(as) |-> as[i].val]

\* parseArgs: values.prompt is the value of the last --prompt (Undefined
\* without one), values.file the values of all --file, positionals the rest.
Undefined == "(undefined)"
values_prompt(av) ==
  LET ps == SelectSeq(av, IsPrompt)
  IN IF ps = <<>> THEN Undefined ELSE ps[Len(ps)].val
values_file(av) == Vals(SelectSeq(av, IsFile))
positionals(av) == Vals(SelectSeq(av, IsPos))

\* JavaScript truthiness of an optional string.
Truthy(v) == v # Undefined /\ v # ""

\* resolve(process.cwd(), f)
Resolve(f) == <<"cwd", f>>

\* `values.prompt || positionals[0] || "Hello"`
Prompt(av) ==
  IF Truthy(values_prompt(av)) THEN values_prompt(av)
  ELSE IF positionals(av) # <<>> /\ Truthy(positionals(av)[1])
       THEN positionals(av)[1] ELSE "Hello"

\* files, startPos and absFiles of main.
AbsFiles(av) ==
  LET pos      == positionals(av)
      startPos == IF ~Truthy(values_prompt(av)) /\ Len(pos) > 0 THEN 1 ELSE 0
      fs       == values_file(av) \o SubSeq(pos, startPos + 1, Len(pos))
  IN [i \in 1..Len(fs) |-> Resolve(fs[i])]

InitArgs ==
  /\ Constructed /\ kind = "gemini" /\ inputVisible = TRUE
  /\ NoExtraction /\ NoChat
  /\ portOpen = TRUE /\ tabs = <<>>
  /\ chrome = NoChrome(portOpen)
  /\ argv \in Argvs
  /\ cli = NoCli

\* The top of main: the arguments are parsed, prompt and files are derived.
main_parse ==
  /\ cli.at = "none"
  /\ cli' = [at |-> "parsed", prompt |-> Prompt(argv), files |-> AbsFiles(argv),
             keepAlive |-> (SelectSeq(argv, IsKeep) # <<>>), code |-> -1]
  /\ UNCHANGED <<argv, kind, norm, chat, req, shared, session, conns, tabs, dom,
                 callers, nCalls, lastSel>>

NextArgs == main_parse

SpecArgs == InitArgs /\ [][NextArgs]_vars

\* ------------------------------------------------ gemini-chat: the run
\* main of the gemini-chat tool (the ocr tool has the same try, catch and
\* finally blocks): ensureReady, sendMessage, and the way out.
CliArgvs == { <<>>, <<Arg("keep-alive", "")>>, <<Arg("file", "f")>> }

\* The tool has parsed its arguments and has not left.
Running == cli.at = "parsed" /\ pc[1] = "idle"

\* `await adapter.ensureReady({ ..., newTab: values["new-tab"], ... })`
main_ensureReady ==
  /\ Running /\ op[1] = "none"
  /\ Call(1, "prepare", FALSE, <<>>, NoReq)

\* `await adapter.sendMessage(prompt, absFiles)`
main_sendMessage ==
  /\ Running /\ op[1] = "prepare" /\ res[1].out \in {"ok", "early"}
  /\ Call(1, "exchange", FALSE,
          IF cli.files = <<>> THEN <<>> ELSE <<"b.png", "a.pdf">>, NoReq)

Leave(code) ==
  /\ cli' = [cli EXCEPT !.at = "exited", !.code = code]
  /\ UNCHANGED <<argv, kind, norm, chat, req, shared, session, conns, tabs, dom,
                 callers, nCalls, lastSel>>

\* The catch block: the error is written and `process.exit(1)` ends the
\* process at once.
main_catch ==
  /\ Running /\ op[1] \in {"prepare", "exchange"} /\ res[1].out = "fail"
  /\ Leave(1)

\* The finally block after the response was written:
\* `if (!values["keep-alive"]) await adapter.close()`.
main_close ==
  /\ Running /\ op[1] = "exchange" /\ res[1].out = "text"
  /\ ~cli.keepAlive
  /\ CallClose(1)

\* The end of the finally block: `process.exit(0)`.
main_exit ==
  /\ Running
  /\ \/ op[1] = "exchange" /\ res[1].out = "text" /\ cli.keepAlive
     \/ op[1] = "release" /\ res[1].out # "none"
  /\ Leave(0)

\* One segment of the adapter call the tool is waiting for.  The tool makes
\* one exchange on a fresh input, so the send button is there when the
\* prompt is filled in, and the waits for it to appear are never entered.
Run(p) ==
  \/ ensureReady_enter(p)
  \/ ensureReady_connected(p)
  \/ ensureReady_noContext(p)
  \/ ensureReady_noBrowser(p)
  \/ ensureReady_newPage(p)
  \/ ensureReady_goto(p)
  \/ ensureReady_gotoFails(p)
  \/ ensureReady_ready(p)
  \/ sendMessage_enter(p)
  \/ upload_plus(p)
  \/ upload_wait(p)
  \/ upload_click(p)
  \/ upload_set(p)
  \/ upload_settle(p)
  \/ fill_wait(p)
  \/ fill_click(p)
  \/ fill_fill(p)
  \/ submit(p)
  \/ await_check(p)
  \/ await_hidden(p)
  \/ await_caught(p)
  \/ settle(p)
  \/ extract(p)
  \/ targetClosed(p)
  \/ close_enter(p)
  \/ close_done(p)

InitCli ==
  /\ Constructed /\ kind = "gemini"
  /\ NoExtraction /\ NoChat
  /\ portOpen = TRUE
  /\ chrome = NoChrome(portOpen)
  /\ tabs \in InitTabs
  /\ argv \in CliArgvs
  /\ cli = NoCli

NextCli ==
  \/ main_parse
  \/ main_ensureReady
  \/ main_sendMessage
  \/ main_catch
  \/ main_close
  \/ main_exit
  \/ Run(1)
  \/ App
  \/ InputChanges
  \/ SendChanges
  \/ TabCloses

SpecCli == InitCli /\ [][NextCli]_vars

\* ----------------------------------------------------------- properties
ExchangePcs == {"up_plus", "up_wait", "up_click", "up_set", "up_settle",
                "fill_wait", "fill_click", "fill_fill", "submit_wait",
                "submit", "aw_check", "aw_appear", "aw_hidden", "aw_grace",
                "settle", "extract"}

\* A sendMessage call of caller p has started and has not returned.
InFlight(p) == pc[p] \in ExchangePcs

\* The state of the exchange driver (section 4.3 of the specification) that
\* the position of caller p in sendMessage stands for.
DriverState(p) ==
  CASE pc[p] \in {"up_plus", "up_wait", "up_click", "up_set", "up_settle"}
         -> "Uploading"
    [] pc[p] \in {"fill_wait", "fill_click", "fill_fill"} -> "Filling"
    [] pc[p] \in {"submit_wait", "submit"} -> "Submitting"
    [] pc[p] \in {"aw_check", "aw_appear", "aw_hidden", "aw_grace"}
         -> "AwaitingGeneration"
    [] pc[p] = "settle" -> "Settling"
    [] pc[p] = "extract" -> "Extracting"
    [] pc[p] = "idle" /\ res[p].out = "fail" -> "Failed"
    [] OTHER -> "Idle"

\* C1: at most one exchange (sendMessage call) is in flight on the facade's
\* adapter at any time, for every interleaving of requests.
C1_OneExchangeInFlight ==
  Cardinality({p \in Procs : InFlight(p)}) <= 1

\* C2: of two sequential exchanges that both return text, the second returns
\* a later answer container than the first, never the same one.
C2_LaterContainer ==
  \A p \in Procs :
    (res[p].out = "text" /\ g[p].prevSel # 0) => res[p].sel > g[p].prevSel

\* C3: in every reachable state, ready implies that the input control of the
\* session's tab is attached and visible.
C3_ReadyImpliesInput ==
  isReady => InputVisibleOn(page)

\* C4: an exchange called while no prepare has succeeded since construction
\* or the last release fails with NotReady and touches no tab.
C4_NotReadyFails ==
  \A p \in Procs :
    (op[p] = "exchange" /\ pc[p] # "sm_start" /\ ~g[p].ready0)
      => (pc[p] = "idle" /\ res[p].err = "NotReady")

\* C5: prepare on a session that is already ready returns at once: it opens
\* no connection, binds or creates no tab, navigates nothing, does not wait
\* for the input and leaves connection, tab handle and ready flag unchanged.
C5_PrepareIdempotent ==
  [][\A p \in Procs :
       (pc[p] = "er_start" /\ pc'[p] # "er_start" /\ isReady /\ page # NoPage)
         => /\ UNCHANGED <<browser, context, page, isReady, nConn, open, tabs>>
            /\ pc'[p] \notin {"er_connect", "er_newpage", "er_goto", "er_wait"}
    ]_vars

C5_Witness ==
  \E p \in Procs : op[p] = "prepare" /\ pc[p] = "idle" /\ res[p].out = "early"

\* C6: an exchange passes through Idle, Uploading (if and only if there are
\* attachments), Filling, Submitting, AwaitingGeneration, Settling,
\* Extracting, Idle in this order, skipping and repeating none; the only
\* other transition is from any state to Failed.
C6_DriverOrder ==
  [][\A p \in Procs :
       LET a == DriverState(p)
           b == DriverState(p)'
       IN a # b =>
            \/ b = "Failed"
            \/ a = "Failed" /\ b = "Idle"
            \/ a = "Idle" /\ b = "Uploading" /\ files[p] # <<>>
            \/ a = "Idle" /\ b = "Filling" /\ files[p] = <<>>
            \/ a = "Uploading" /\ b = "Filling"
            \/ a = "Filling" /\ b = "Submitting"
            \/ a = "Submitting" /\ b = "AwaitingGeneration"
            \/ a = "AwaitingGeneration" /\ b = "Settling"
            \/ a = "Settling" /\ b = "Extracting"
            \/ a = "Extracting" /\ b = "Idle" /\ res'[p].out = "text"
    ]_vars

C6_Witness ==
  \E p \in Procs :
    /\ pc[p] = "idle" /\ res[p].out = "text"
    /\ files[p] # <<>> /\ g[p].supplied # <<>>

\* C7 (as claimed): extraction does not begin while the stop control is
\* visible, however late after the send it appeared.
C7_NoExtractWhileGenerating ==
  \A p \in Procs : pc[p] = "extract" => ~StopVisibleOn(hnd[p])

\* C7 (amended): the driver leaves AwaitingGeneration for Settling only at a
\* moment when the stop control is not visible on its page; a control that
\* appears after that moment is not waited for.
C7_LeavesAwaitWhenHidden ==
  [][\A p \in Procs :
       (DriverState(p) = "AwaitingGeneration" /\ DriverState(p)' = "Settling")
         => ~StopVisibleOn(hnd[p])
    ]_vars

C7_Witness ==
  \E p \in Procs : pc[p] = "settle" /\ g[p].sawStop /\ Usable(hnd[p])

\* C8: when the application answered the prompt with an error banner or a
\* CAPTCHA instead of a new answer container, the exchange never returns
\* text, whatever containers of earlier exchanges exist.
C8_BannerNeverText ==
  [][\A p \in Procs :
       (pc[p] = "extract" /\ prm[p] \in bannered) => res'[p].out # "text"
    ]_vars

\* C9: extraction selects the last of all answer containers present; with
\* zero containers the exchange fails with NoResponseFound and no text.
C9_SelectsLast ==
  [][\A p \in Procs :
       (pc[p] = "extract" /\ pc'[p] # "extract" /\ Usable(hnd[p]))
         => LET n == Len(Responses(hnd[p])) IN
            IF n = 0
            THEN res'[p].out = "fail" /\ res'[p].err = "NoResponseFound"
            ELSE res'[p].out = "text" /\ res'[p].sel = n
    ]_vars

C9_Witness ==
  \E p \in Procs :
    /\ pc[p] = "idle" /\ res[p].out = "text"
    /\ res[p].sel >= 2 /\ res[p].sel = Len(containers)

\* C10: if the send control is not visible when the driver reaches
\* Submitting, the exchange fails with SendControlNotFound and does not
\* proceed to AwaitingGeneration.
C10_HiddenSendNeverProceeds ==
  \A p \in Procs :
    pc[p] \in {"aw_check", "aw_appear", "aw_hidden", "aw_grace", "settle",
               "extract"} => g[p].send0

UploadPcs == {"up_plus", "up_wait", "up_click", "up_set", "up_settle"}
AwaitPcs == {"aw_check", "aw_appear", "aw_hidden"}

\* C11: in the ChatGPT adapter, when the stop control was not observed to
\* appear within the appear-wait, the driver performs the 3000 ms grace
\* delay before it proceeds to Settling.
C11_GraceWhenNotSeen ==
  [][\A p \in Procs :
       (kind = "chatgpt" /\ ~g[p].sawStop /\ pc[p] # "settle"
          /\ pc'[p] = "settle")
         => pc[p] = "aw_grace"
    ]_vars

C13_UploadBeforeFill ==
  [][\A p \in Procs :
       /\ (pc'[p] = "fill_wait" /\ pc[p] # "fill_wait")
            => IF files[p] # <<>>
               THEN pc[p] = "up_settle" /\ g[p].supplied = <<files[p]>>
               ELSE pc[p] \notin UploadPcs /\ g[p].supplied = <<>>
       /\ pc'[p] \in UploadPcs => files'[p] # <<>>
       /\ (g'[p].supplied # g[p].supplied /\ g'[p].supplied # <<>>)
            => (pc[p] = "up_set" /\ g[p].supplied = <<>>
                  /\ g'[p].supplied = <<files[p]>>)
       /\ g'[p].filled
            => g'[p].supplied = IF files'[p] = <<>> THEN <<>> ELSE <<files'[p]>>
    ]_vars

C13_Witness ==
  \E p \in Procs :
    g[p].filled /\ files[p] # <<>> /\ g[p].supplied = <<files[p]>>

\* C14: within one exchange the input is filled at most once and the send
\* control activated at most once, and after a failure the request does
\* nothing more: the caller's next step is a new call.
C14_NoRetry ==
  [][\A p \in Procs :
       /\ (pc[p] = "fill_fill" /\ pc'[p] \in {"submit", "submit_wait"})
            => ~g[p].filled
       /\ (pc[p] = "submit" /\ pc'[p] \in {"aw_check", "aw_appear"})
            => ~g[p].sent
       /\ (pc[p] = "idle" /\ res[p].out = "fail")
            => \/ UNCHANGED <<op[p], pc[p], prm[p], hnd[p], res[p], g[p]>>
               \/ nCalls' = nCalls + 1 /\ res'[p] = NoRes
    ]_vars

C14_Witness ==
  \E p \in Procs :
    /\ pc[p] = "idle" /\ res[p].out = "fail"
    /\ g[p].filled /\ g[p].sent

\* What C15 assumes of the page: the input control and the send control
\* become visible again and again, and the stop control is hidden again
\* and again.
ControlsRespond ==
  /\ []<>InputVisibleOn(page)
  /\ []<>SendVisibleOn(page)
  /\ []<>~StopVisibleOn(page)

\* The attach controls and the file chooser answer as well.
AttachResponds ==
  \A p \in Procs :
    SF_vars(upload_plus(p) \/ upload_wait(p) \/ upload_click(p))

\* A call in flight ends at most once, with text or with a failure.
OneOutcome ==
  [][\A p \in Procs :
       /\ res'[p] # res[p]
            => \/ res[p] = NoRes /\ pc'[p] = "idle"
               \/ res'[p] = NoRes /\ nCalls' = nCalls + 1
       /\ (InFlight(p) /\ pc'[p] = "idle")
            => \/ res'[p].out = "text" /\ res'[p].err = ""
               \/ res'[p].out = "fail" /\ res'[p].err # "" /\ res'[p].sel = 0
    ]_vars

\* C15 (as claimed): every exchange yields exactly one outcome, and if the
\* input and send controls become visible and the stop control disappears,
\* every exchange returns.
C15_EveryCallReturns ==
  /\ OneOutcome
  /\ ControlsRespond => \A p \in Procs : InFlight(p) ~> (pc[p] = "idle")

\* C15 (amended): the same, provided that for an exchange with attachments
\* the attach controls and the file chooser answer too.
C15_ReturnsIfAttachResponds ==
  /\ OneOutcome
  /\ (ControlsRespond /\ AttachResponds)
       => \A p \in Procs : InFlight(p) ~> (pc[p] = "idle")

C15_Witness ==
  \E p \in Procs :
    /\ op[p] = "exchange" /\ pc[p] = "idle" /\ res[p].out = "text"
    /\ files[p] # <<>> /\ g[p].sawStop

\* C16: between construction and the next release the adapter opens at most
\* one browser connection, for any sequence or interleaving of prepare
\* calls (the facade never releases).
C16_SingleConnection ==
  Cardinality(open) <= 1

\* C17: when release returns, ready is false and the connection handle is
\* cleared; release never fails, whether or not the adapter was prepared;
\* a prepare on a released adapter does not return early but connects,
\* and returns only after the wait for the input.
C17_ReleaseTearsDown ==
  [][\A p \in Procs :
       /\ (pc[p] = "cl_start" /\ pc'[p] # "cl_start") => pc'[p] = "cl_closing"
       /\ (pc[p] = "cl_closing" /\ pc'[p] # "cl_closing")
            => (pc'[p] = "idle" /\ res'[p].out = "ok"
                  /\ ~isReady' /\ browser' = 0)
       /\ (pc[p] = "er_start" /\ pc'[p] # "er_start" /\ browser = 0)
            => pc'[p] = "er_connect"
       /\ (op[p] = "prepare" /\ pc[p] # "idle" /\ pc'[p] = "idle"
             /\ res'[p].out = "ok")
            => (pc[p] = "er_wait" /\ isReady')
    ]_vars

C17_Witness ==
  \E p \in Procs :
    /\ op[p] = "prepare" /\ pc[p] = "er_connect"
    /\ browser = 0 /\ page # NoPage

\* C18: release of one adapter leaves the connection of another adapter
\* instance of the process open.
C18_ReleaseLeavesPeer ==
  [][\A p \in Procs :
       (pc[p] = "cl_closing" /\ pc'[p] = "idle" /\ peer \in open)
         => peer \in open'
    ]_vars

\* C19: when newTab is false and an existing tab matches, prepare binds the
\* first matching tab and creates none; otherwise it creates a tab and
\* binds no existing one.
C19_TabSelection ==
  [][\A p \in Procs :
       (pc[p] = "er_connect" /\ pc'[p] \notin {"er_connect", "idle"})
         => IF ~newTab[p] /\ (\E i \in Pages : UrlMatches(kind, tabs[i].url))
            THEN /\ page'.tab = MatchingPage
                 /\ pc'[p] # "er_newpage"
                 /\ tabs' = tabs
            ELSE /\ pc'[p] = "er_newpage"
                 /\ page' = page
    ]_vars

\* C20: a prepare that fails with NoBrowserContext has selected, created
\* and navigated no tab, and leaves the session not ready.
C20_NoContextFails ==
  [][\A p \in Procs :
       (pc[p] # "idle" /\ res'[p].err = "NoBrowserContext")
         => /\ pc[p] = "er_connect" /\ pc'[p] = "idle"
            /\ res'[p].out = "fail"
            /\ UNCHANGED <<context, page, tabs, isReady>>
            /\ ~isReady'
    ]_vars

C20_Witness ==
  \E p \in Procs : pc[p] = "idle" /\ res[p].err = "NoBrowserContext"

\* C21: prepare navigates the chosen tab if and only if its URL does not
\* match the target application: a tab selected because it matches is
\* never navigated, a created or non-matching tab always is.
C21_NavigatesIffNoMatch ==
  [][\A p \in Procs :
       /\ (pc[p] = "er_connect" /\ page' # page)
            => (pc'[p] = "er_goto"
                  <=> ~UrlMatches(kind, tabs[page'.tab].url))
       /\ (pc[p] = "er_newpage" /\ pc'[p] \notin {"er_newpage", "idle"})
            => pc'[p] = "er_goto"
    ]_vars

\* C22: the ready flag becomes true only in the last step of a prepare
\* whose wait, issued after any navigation, saw the input control visible
\* on the session's tab; a prepare that fails leaves the flag false.
C22_ReadyOnlyAfterInput ==
  [][\A p \in Procs :
       /\ (isReady' /\ ~isReady)
            => \E q \in Procs :
                 /\ pc[q] = "er_wait" /\ pc'[q] # "er_wait"
                 /\ hnd[q] = page /\ page' = page
                 /\ InputVisibleOn(page)
                 /\ op[q] = "prepare" => (pc'[q] = "idle" /\ res'[q].out = "ok")
       /\ (pc[p] \in {"er_connect", "er_newpage", "er_goto", "er_wait"}
             /\ res'[p].out = "fail")
            => (~isReady /\ ~isReady')
    ]_vars

C22_Witness ==
  \E p \in Procs :
    /\ op[p] = "prepare" /\ pc[p] = "idle" /\ res[p].out = "ok"
    /\ isReady /\ tabs[page.tab].url = "app" /\ Len(tabs) = 1

\* The adapter that the README's model names stand for.
AdapterOf(model) == IF model = "chatgpt-browser" THEN "chatgpt" ELSE "gemini"

\* C23: a request is served by the adapter its model name selects, so the
\* model echoed in the response is the model that produced the answer.
C23_DispatchByModel ==
  \A p \in Procs :
    (op[p] = "handler" /\ pc[p] = "idle" /\ res[p].out = "text")
      => (Response(p).model = req[p].model /\ kind = AdapterOf(req[p].model))

\* C24: a request in which prepare or exchange failed is answered with
\* status 500 and the fixed reason of its route, which carries nothing of
\* the error; the request ends once and the caller can post again.
C24_FailureIs500 ==
  [][\A p \in Procs :
       (op[p] = "handler" /\ pc[p] # "idle" /\ pc'[p] = "idle"
          /\ res'[p].out = "fail")
         => /\ Response(p)'.status = 500
            /\ Response(p)'.error =
                 (IF req[p].path = "/api/generate" THEN "Generation failed"
                                                    ELSE "Chat failed")
            /\ Response(p)'.error # res'[p].err
            /\ Response(p)'.content = 0
            /\ res[p] = NoRes
            /\ UNCHANGED <<req, nCalls>>
    ]_vars

C24_Witness ==
  \E p \in Procs :
    /\ op[p] = "handler" /\ pc[p] = "idle" /\ req[p].path = "/api/chat"
    /\ res[p].err = "NoResponseFound"

\* C30: when an exchange activates the send control, the input control
\* holds exactly that exchange's prompt, for every interleaving of the
\* facade's requests.
C30_SendsOwnPrompt ==
  [][\A p \in Procs :
       (pc[p] = "submit" /\ pc'[p] # "submit" /\ pendingQ' # pendingQ)
         => inputText = prm[p]
    ]_vars

\* ------------------------------------------------- normalizer properties
\* s occurs in o as a run of consecutive tokens.
Contains(o, s) ==
  \E i \in 0..(Len(o) - Len(s)) : SubSeq(o, i + 1, i + Len(s)) = s

\* The extraction has returned for a container with the .markdown body.
Converted == out # <<>> /\ tree.markdown

\* The one node of the answer body.
Body == tree.kids[1]

\* The body is one code block whose text sits in the code element.
IsCodeBlock == Body.tag = CodeTag(variant) /\ Body.code

\* C25: for a body with one code block labelled "python", the output holds
\* the fence opened with the tag python, the code text verbatim, and the
\* closing fence,
\* for every code text, in every adapter variant.
C25_CodeVerbatim ==
  (Converted /\ IsCodeBlock /\ Body.deco = "python")
    => Contains(out[1], <<Fence, "python", "\n">> \o Body.text \o <<"\n", Fence>>)

\* C26: without the .markdown body the extraction returns the plain visible
\* text of the container, with no markdown conversion, in every variant.
C26_FallbackPlainText ==
  (out # <<>> /\ ~tree.markdown) => out[1] = innerText(tree)

Decorative(v) == IF v = "chatgpt" THEN "copy code" ELSE "code snippet"
Alias(l) == CASE l = "shell" -> "bash" [] l = "c++" -> "cpp" [] OTHER -> l

\* The language tag behind the first fence of o ("" if there is none).
FenceTag(o) ==
  LET i == CHOOSE j \in 1..Len(o) : o[j] = Fence /\ \A m \in 1..(j - 1) : o[m] # Fence
  IN IF o[i + 1] = "\n" THEN "" ELSE o[i + 1]

\* C28: the language tag is empty without a decoration or with the
\* decorative-only label, the alias for a label of the alias table, and
\* otherwise the trimmed lower-cased label.
C28_LangTag ==
  (Converted /\ IsCodeBlock)
    => FenceTag(out[1]) =
         IF Body.deco = NoDeco \/ TrimLower(Body.deco) = Decorative(variant)
         THEN "" ELSE Alias(TrimLower(Body.deco))

\* The non-whitespace texts below the nodes k, trimmed, in document order
\* (decoration labels aside).
RECURSIVE VisibleTexts(_)
VisibleTexts(k) ==
  IF k = <<>> THEN <<>>
  ELSE (IF trim(Head(k).text) # <<>> THEN <<trim(Head(k).text)>> ELSE <<>>)
         \o VisibleTexts(Head(k).kids) \o VisibleTexts(Tail(k))

\* The texts ts occur in o one after the other.
RECURSIVE InOrder(_, _)
InOrder(ts, o) ==
  \/ ts = <<>>
  \/ \E i \in 0..(Len(o) - Len(Head(ts))) :
       /\ SubSeq(o, i + 1, i + Len(Head(ts))) = Head(ts)
       /\ InOrder(Tail(ts), SubSeq(o, i + Len(Head(ts)) + 1, Len(o)))

\* C29: the walk loses no visible content: every non-whitespace text node
\* below the body appears in the output, in document order.
C29_NoContentLost ==
  (Converted /\ variant = "walk") => InOrder(VisibleTexts(tree.kids), out[1])

\* C31: no step of a sendMessage call changes the session (connection
\* handle, context, tab handle, ready flag), whether the call goes on,
\* returns text or fails.
C31_ExchangeKeepsSession ==
  [][\A p \in Procs :
       (op[p] = "exchange" /\ pc[p] # "idle"
          /\ <<pc[p], hnd[p], g[p], res[p]>>' # <<pc[p], hnd[p], g[p], res[p]>>)
         => session' = session]_vars

\* An exchange has failed on a ready session, which is still ready and
\* bound to its tab.
C31_Witness ==
  \E p \in Procs :
    /\ op[p] = "exchange" /\ pc[p] = "idle" /\ res[p].out = "fail"
    /\ res[p].err # "NotReady"
    /\ isReady /\ page # NoPage /\ browser # 0

\* C32: sendMessage on an adapter that never bound a page fails at once
\* with "Browser not initialized", before any step on the page, and leaves
\* the adapter and the application as they were.
C32_NotInitialized ==
  [][\A p \in Procs :
       (op[p] = "exchange" /\ pc[p] = "sm_start" /\ pc'[p] # "sm_start"
          /\ page = NoPage)
         => /\ pc'[p] = "idle"
            /\ res'[p].out = "fail" /\ res'[p].err = "NotReady"
            /\ <<session, conns, tabs, dom, lastSel>>'
                 = <<session, conns, tabs, dom, lastSel>>]_vars

C32_Witness ==
  \E p \in Procs :
    /\ op[p] = "exchange" /\ pc[p] = "idle" /\ res[p].err = "NotReady"
    /\ browser = 0 /\ page = NoPage /\ nConn = 0

\* C37: closeBrowser kills a process only if this program spawned it and it
\* opened the debugging port; it never ends the Chrome of the operator; no
\* process receives a second kill.
C37_KillsOnlyOwnChrome ==
  [][/\ \A i \in DOMAIN chrome.procs :
          chrome'.procs[i].kills > chrome.procs[i].kills
            => /\ chrome'.procs[i].kills = 1
               /\ pc[1] = "cb_closing" => chrome.procs[i].opened
     /\ (pc[1] = "cb_closing" /\ pc'[1] = "idle" /\ chrome.owner = Operator)
          => chrome'.owner = Operator /\ portOpen']_vars

\* The status of the answer to the finished request of caller p.
ReplyStatus(p) ==
  IF res[p].out = "static" THEN res[p].sel ELSE Response(p).status

\* The request of caller p is one of the two that drive the browser.
Drives(p) ==
  req[p].method = "POST" /\ req[p].path \in {"/api/generate", "/api/chat"}

\* The request of caller p matches no route of the facade.
Unmatched(p) ==
  /\ req[p].method # "OPTIONS" /\ req[p].path # "/"
  /\ ~Drives(p)
  /\ ~(req[p].method = "GET" /\ req[p].path = "/api/tags")
  /\ ~(req[p].method = "POST" /\ req[p].path = "/api/show")

\* C34: only POST /api/generate and POST /api/chat call the adapter; every
\* other request is answered without a step of ensureReady or sendMessage
\* and leaves the session, the connections and the page as they were; an
\* unmatched request is answered 404.
C34_OnlyPostsDrive ==
  [][\A p \in Procs :
       /\ pc'[p] # "idle" => Drives(p)'
       /\ (nCalls' # nCalls /\ ~Drives(p)' /\ req'[p] # NoReq)
            => /\ pc'[p] = "idle"
               /\ <<session, conns, tabs, dom, lastSel>>'
                    = <<session, conns, tabs, dom, lastSel>>
               /\ Unmatched(p)' => ReplyStatus(p)' = 404]_vars

\* An unmatched request was answered 404 on a ready session.
C34_Witness ==
  /\ Unmatched(1) /\ req[1] # NoReq /\ pc[1] = "idle"
  /\ ReplyStatus(1) = 404
  /\ isReady /\ browser # 0

\* The tokens of a prompt that are message contents, in order.
IsContent(t) == t \in Contents

ContentsOf(ms) == [i \in 1..Len(ms) |-> ms[i].content]

\* C33: the prompt built for /api/chat holds the content of every message:
\* the system contents first, then the other messages in request order; no
\* message is dropped, whatever the number and position of system messages.
C33_AllMessagesSent ==
  fullPrompt # <<>>
    => SelectSeq(fullPrompt[1], IsContent)
         = ContentsOf(SelectSeq(messages, IsSystem))
             \o ContentsOf(SelectSeq(messages, NotSystem))

\* What the documentation of the tool says about a command line: the
\* prompt, and the attachments before they are resolved.
GivenPrompt(av) == SelectSeq(av, IsPrompt) # <<>>
DocPrompt(av) ==
  IF GivenPrompt(av) THEN values_prompt(av)
  ELSE IF positionals(av) # <<>> THEN positionals(av)[1] ELSE "Hello"
DocFiles(av) ==
  values_file(av)
    \o (IF GivenPrompt(av) \/ positionals(av) = <<>> THEN positionals(av)
        ELSE Tail(positionals(av)))

\* C36: the prompt is the --prompt value if given, else the first
\* positional, else "Hello"; the attachments are the --file values followed
\* by the positionals that were not taken as the prompt.
C36_PromptAndFiles ==
  cli.at = "parsed"
    => /\ cli.prompt = DocPrompt(argv)
       /\ cli.files = [i \in 1..Len(DocFiles(argv)) |-> Resolve(DocFiles(argv)[i])]

\* C35: without --keep-alive the tool leaves only after close() was called
\* and has returned, on the successful path and on the failing ones.
C35_ReleasedBeforeExit ==
  (cli.at = "exited" /\ ~cli.keepAlive) => (op[1] = "release" /\ res[1].out = "ok")

TypeOK ==
  /\ kind \in {"gemini", "chatgpt"}
  /\ isReady \in BOOLEAN
  /\ browser \in 0..nConn
  /\ nCalls \in 0..(MaxCalls + 1)
  /\ \A p \in Procs : res[p].out \in {"none", "ok", "early", "text", "fail"}

====
